---------------------------- MODULE Spec2Model ----------------------------
(***************************************************************************)
(* A model of frostgate-relayer: the in-memory MessageQueue (queue.rs) and *)
(* the RelayerService orchestration loops (service.rs).                    *)
(*                                                                         *)
(* Three kinds of specification are defined over the same variables:       *)
(*   SpecQueue  the MessageQueue API driven by a single caller, each call  *)
(*              one atomic step (its locks are uncontended);               *)
(*              SpecQueueClock lets time pass between the calls;           *)
(*   Spec       the RelayerService: start/stop and the spawned loops, each *)
(*              step running up to the next await that can suspend the     *)
(*              task (a lock acquisition, an adapter call, the sleep);     *)
(*              FairSpec adds the fairness of the runtime and the locks.   *)
(*   SpecWatch  the service with only its first watcher loop scheduled,    *)
(*              the batches it hears kept as history.                      *)
(* Option<T> is modelled as a sequence of length 0 (None) or 1 (Some).     *)
(* Time is counted in milliseconds.                                        *)
(***************************************************************************)
EXTENDS Integers, Sequences, FiniteSets, TLC

VARIABLES
    pending,       \* MessageQueue.pending : VecDeque<Uuid>
    messages,      \* MessageQueue.messages : HashMap<Uuid, QueuedMessage>
    pendingLock,   \* holder of the RwLock around pending (<<>> when free)
    messagesLock,  \* holder of the RwLock around messages (<<>> when free)
    now,           \* SystemTime::now(), in milliseconds
    nextId,        \* the next Uuid::new_v4() (fresh ids are numbered 1, 2, ...)
    running,       \* RelayerService.running
    config,        \* RelayerService.config
    started,       \* number of successful start() calls (one pair of loops each)
    proc,          \* the spawned message processing tasks
    watch,         \* the spawned chain watching tasks
    startResult,   \* what the most recent start() returned
    verifyCalls,   \* history: verify_proof calls made, per message id
    submitCalls,   \* history: submit_message calls made, per message id
    popped,        \* history: ids that dequeue popped off the ordering sequence
    taken,         \* history: attempts of the copy a processor dequeued, per id (-1: never)
    last,          \* history: the queue operation the last step performed
    heard          \* history: the batch the watcher last heard (kept in SpecWatch)

vars == << pending, messages, pendingLock, messagesLock, now, nextId, running,
           config, started, proc, watch, startResult, verifyCalls, submitCalls,
           popped, taken, last, heard >>

queueVars == << pending, messages, now, nextId, popped, taken, last >>
serviceVars == << pendingLock, messagesLock, running, config, started, proc,
                  watch, startResult, verifyCalls, submitCalls >>

---------------------------------------------------------------------------
(* Bounds of the model *)

MaxMsgs == 2        \* ids ever allocated in SpecQueue
MaxRelayed == 1     \* messages the watchers enqueue in Spec
MaxAttempts == 1    \* cap on the attempts counter in SpecQueue
MaxHours == 1       \* largest retention window given to prune_old_messages
MaxStarts == 2      \* successful start() calls
MaxBatch == 2       \* events returned by one listen_for_events call
MaxRetry == 1       \* largest config.max_retry_attempts

(* Program constants *)

SecsPerHour == 3600
MillisPerSec == 1000

---------------------------------------------------------------------------
(* types.rs *)

None == << >>
Some(x) == << x >>

Pending == [tag |-> "Pending", reason |-> ""]
Proving == [tag |-> "Proving", reason |-> ""]
ReadyForSubmission == [tag |-> "ReadyForSubmission", reason |-> ""]
Submitted == [tag |-> "Submitted", reason |-> ""]
Finalized == [tag |-> "Finalized", reason |-> ""]
Failed(r) == [tag |-> "Failed", reason |-> r]

MaxRetryReason == "Max retry attempts exceeded"
ProofReason == "Proof verification failed"
SubmitReason == "Destination chain submission failed"

MessageStatus ==
    { Pending, Proving, ReadyForSubmission, Submitted, Finalized,
      Failed(MaxRetryReason), Failed(ProofReason), Failed(SubmitReason) }

\* The FrostMessage fields the relayer reads.
FrostMessage(from, to, payload, proof) ==
    [from_chain |-> from, to_chain |-> to, payload |-> payload, proof |-> proof]

\* QueuedMessage as handle_chain_event builds it.
QueuedMessage(id, message, t) ==
    [id |-> id, message |-> message, status |-> Pending, queued_at |-> t,
     attempts |-> 0, last_error |-> None]

Ids == 1 .. MaxMsgs

---------------------------------------------------------------------------
(* queue.rs *)

\* HashMap::insert
Insert(m, id, msg) ==
    [i \in (DOMAIN m) \cup {id} |-> IF i = id THEN msg ELSE m[i]]

\* enqueue with the push_back forgotten
enqueue_no_push(p, m, message) ==
    [pending |-> p, messages |-> Insert(m, message.id, message)]

\* enqueue, once both write locks are held
enqueue(p, m, message) ==
    [pending |-> Append(p, message.id),
     messages |-> Insert(m, message.id, message)]

\* dequeue returning the first Pending record without taking any id off the
\* ordering sequence
dequeue_no_pop(p, m) ==
    LET S == {i \in 1 .. Len(p) : p[i] \in DOMAIN m /\ m[p[i]].status = Pending} IN
    IF S = {}
    THEN [pending |-> p, ret |-> None]
    ELSE [pending |-> p,
          ret |-> Some(m[p[CHOOSE i \in S : \A j \in S : i <= j]])]

\* dequeue stopping at the first id it pops when that one is not Pending
RECURSIVE dequeue_no_skip(_, _)
dequeue_no_skip(p, m) ==
    IF p = << >>
    THEN [pending |-> << >>, ret |-> None]
    ELSE LET id == Head(p) IN
         IF id \in DOMAIN m /\ m[id].status = Pending
         THEN [pending |-> Tail(p), ret |-> Some(m[id])]
         ELSE [pending |-> Tail(p), ret |-> None]

\* dequeue, once the write lock on pending and the read lock on messages are
\* held: pops ids until one is found whose record is Pending.
RECURSIVE dequeue(_, _)
dequeue(p, m) ==
    IF p = << >>
    THEN [pending |-> << >>, ret |-> None]
    ELSE LET id == Head(p) IN
         IF id \in DOMAIN m /\ m[id].status = Pending
         THEN [pending |-> Tail(p), ret |-> Some(m[id])]
         ELSE dequeue(Tail(p), m)

\* matches!(status, MessageStatus::Failed(_))
is_failed(status) == status.tag = "Failed"

\* update_status counting every call as an attempt
update_status_always_counts(m, id, status, error) ==
    IF id \in DOMAIN m
    THEN [m EXCEPT ![id] =
            [@ EXCEPT !.status = status,
                      !.last_error = error,
                      !.attempts = @ + 1]]
    ELSE m

\* update_status with the is_failed test inverted
update_status_counts_success(m, id, status, error) ==
    IF id \in DOMAIN m
    THEN [m EXCEPT ![id] =
            [@ EXCEPT !.status = status,
                      !.last_error = error,
                      !.attempts = IF is_failed(status) THEN @ ELSE @ + 1]]
    ELSE m

\* update_status losing the error text
update_status_drops_error(m, id, status, error) ==
    IF id \in DOMAIN m
    THEN [m EXCEPT ![id] =
            [@ EXCEPT !.status = status,
                      !.last_error = None,
                      !.attempts = IF is_failed(status) THEN @ + 1 ELSE @]]
    ELSE m

\* update_status, once the write lock on messages is held
update_status(m, id, status, error) ==
    IF id \in DOMAIN m
    THEN [m EXCEPT ![id] =
            [@ EXCEPT !.status = status,
                      !.last_error = error,
                      !.attempts = IF is_failed(status) THEN @ + 1 ELSE @]]
    ELSE m

\* now.duration_since(queued_at).unwrap_or_default().as_secs()
age_secs(t, queued_at) ==
    IF t >= queued_at THEN (t - queued_at) \div MillisPerSec ELSE 0

\* should_keep without the protection of Pending and Proving records
should_keep_by_age_only(msg, t, max_age_hours) ==
    age_secs(t, msg.queued_at) < max_age_hours * SecsPerHour

\* the closure's should_keep
should_keep(msg, t, max_age_hours) ==
    \/ age_secs(t, msg.queued_at) < max_age_hours * SecsPerHour
    \/ msg.status \in {Pending, Proving}

\* prune_old_messages with the pending.retain forgotten
prune_map_only(p, m, t, max_age_hours) ==
    LET keep == {id \in DOMAIN m : should_keep(m[id], t, max_age_hours)} IN
    [pending |-> p, messages |-> [id \in keep |-> m[id]]]

\* prune_old_messages, once both write locks are held; t is the time read
\* at the start of the call.
prune_old_messages(p, m, t, max_age_hours) ==
    LET keep == {id \in DOMAIN m : should_keep(m[id], t, max_age_hours)} IN
    [pending |-> SelectSeq(p, LAMBDA x : x \in keep \/ x \notin DOMAIN m),
     messages |-> [id \in keep |-> m[id]]]

---------------------------------------------------------------------------
(* The MessageQueue API driven by a single caller (SpecQueue) *)

\* The queue operation a step performed, what it returned and how many ids
\* it took off the ordering sequence.
Op(name, ret, n) == [op |-> name, ret |-> ret, n |-> n]

\* Instants the clock is observed at: the start, and a millisecond past the
\* first whole hour after it.
TimePoints == {0, SecsPerHour * MillisPerSec + 1}

\* The (status, error) pairs update_status is called with: every kind of
\* status, Failed with an error text and the others without.
UpdateInputs ==
    { <<Pending, None>>, <<Proving, None>>, <<ReadyForSubmission, None>>,
      <<Submitted, None>>, <<Finalized, None>>,
      <<Failed(SubmitReason), Some("adapter error")>> }

\* The ids dequeue pops off p: everything up to and including the one returned.
PoppedBy(p, r) == {p[i] : i \in 1 .. (Len(p) - Len(r.pending))}

\* The history of returned copies after dequeue returned ret.
Taken(tk, ret) ==
    IF ret = None THEN tk ELSE [tk EXCEPT ![ret[1].id] = ret[1].attempts]

NoLockHeld == pendingLock = << >> /\ messagesLock = << >>

\* queue.enqueue(QueuedMessage { id: Uuid::new_v4(), queued_at: now, .. })
QEnqueue ==
    /\ NoLockHeld
    /\ nextId <= MaxMsgs
    /\ LET message == QueuedMessage(nextId, FrostMessage("A", "B", <<1>>, FALSE), now)
           r == enqueue(pending, messages, message)
       IN  /\ pending' = r.pending
           /\ messages' = r.messages
    /\ nextId' = nextId + 1
    /\ last' = Op("enqueue", None, 0)
    /\ UNCHANGED << now, popped, taken, serviceVars, heard >>

\* queue.dequeue()
QDequeue ==
    /\ NoLockHeld
    /\ LET r == dequeue(pending, messages)
       IN  /\ pending' = r.pending
           /\ popped' = popped \cup PoppedBy(pending, r)
           /\ last' = Op("dequeue", r.ret, Len(pending) - Len(r.pending))
    /\ UNCHANGED << messages, now, nextId, taken, serviceVars, heard >>

\* queue.update_status(id, status, error)
QUpdateStatus(id, status, error) ==
    /\ NoLockHeld
    /\ (id \in DOMAIN messages /\ is_failed(status))
          => messages[id].attempts < MaxAttempts
    /\ messages' = update_status(messages, id, status, error)
    /\ last' = Op("update_status", None, 0)
    /\ UNCHANGED << pending, now, nextId, popped, taken, serviceVars, heard >>

\* queue.prune_old_messages(max_age_hours)
QPrune(max_age_hours) ==
    /\ NoLockHeld
    /\ LET r == prune_old_messages(pending, messages, now, max_age_hours)
       IN  /\ pending' = r.pending
           /\ messages' = r.messages
           /\ last' = Op("prune", None, Len(pending) - Len(r.pending))
    /\ UNCHANGED << now, nextId, popped, taken, serviceVars, heard >>

\* The wall clock moves on.
Tick(points) ==
    /\ \E t \in points : t > now /\ now' = t
    /\ last' = Op("tick", None, 0)
    /\ UNCHANGED << pending, messages, nextId, popped, taken, serviceVars, heard >>

\* No batch heard yet: nothing to enqueue, the next fresh id is the first.
NoBatch == [events |-> << >>, first |-> 1]

NoTask == [pc |-> "idle", msg |-> None, t |-> 0, events |-> << >>]

ConfigInit(c) ==
    /\ pending = << >>
    /\ messages = << >>
    /\ pendingLock = << >>
    /\ messagesLock = << >>
    /\ now = 0
    /\ nextId = 1
    /\ running = FALSE
    /\ config = c
    /\ started = 0
    /\ proc = [g \in 1 .. MaxStarts |-> NoTask]
    /\ watch = [g \in 1 .. MaxStarts |-> NoTask]
    /\ startResult = "none"
    /\ verifyCalls = [id \in Ids |-> 0]
    /\ submitCalls = [id \in Ids |-> 0]
    /\ popped = {}
    /\ taken = [id \in Ids |-> -1]
    /\ last = Op("new", None, 0)
    /\ heard = NoBatch

RelayerConfig(retry, pruning, hours) ==
    [max_retry_attempts |-> retry, enable_auto_pruning |-> pruning,
     message_history_hours |-> hours]

\* MessageQueue::new(); the service part is never started.
InitQueue == ConfigInit(RelayerConfig(MaxRetry, FALSE, 0))

\* The queue's own operations, with the clock standing still.
NextQueue ==
    \/ QEnqueue
    \/ QDequeue
    \/ \E id \in Ids, u \in UpdateInputs : QUpdateStatus(id, u[1], u[2])
    \/ \E h \in 0 .. MaxHours : QPrune(h)

\* The same with time passing between the calls.
NextQueueClock ==
    \/ NextQueue
    \/ Tick(TimePoints)

SpecQueue == InitQueue /\ [][NextQueue]_vars

SpecQueueClock == InitQueue /\ [][NextQueueClock]_vars

---------------------------------------------------------------------------
(* service.rs: validation and the decisions of process_messages *)

\* validate_message: "ok", or the reason of the ValidationError
validate_message(message) ==
    IF message.from_chain = "Unknown" THEN "Source chain is unknown"
    ELSE IF message.to_chain = "Unknown" THEN "Target chain is unknown"
    ELSE IF message.payload = << >> THEN "Payload is empty"
    ELSE "ok"

\* The events listen_for_events returns: two valid ones (with and without a
\* proof) and one for each way validation fails.
EventValues ==
    { [message |-> FrostMessage("A", "B", <<1>>, FALSE)],
      [message |-> FrostMessage("A", "B", <<1>>, TRUE)],
      [message |-> FrostMessage("Unknown", "B", <<1>>, FALSE)],
      [message |-> FrostMessage("A", "Unknown", <<1>>, FALSE)],
      [message |-> FrostMessage("A", "B", << >>, TRUE)] }

Batches == UNION {[1 .. n -> EventValues] : n \in 0 .. MaxBatch}

ValidCount(evs) ==
    Cardinality({i \in 1 .. Len(evs) : validate_message(evs[i].message) = "ok"})

\* watch_chain giving up on the batch at the first event failing validation
SkipInvalid_aborts(evs) ==
    IF evs = << >> THEN << >>
    ELSE IF validate_message(Head(evs).message) = "ok" THEN evs
    ELSE << >>

\* The events of a batch that watch_chain's loop has yet to enqueue: those
\* failing validation are logged and skipped.
RECURSIVE SkipInvalid(_)
SkipInvalid(evs) ==
    IF evs = << >> THEN << >>
    ELSE IF validate_message(Head(evs).message) = "ok" THEN evs
    ELSE SkipInvalid(Tail(evs))

\* the retry check with > written for >=
give_up_when_above(msg, cfg) == msg.attempts > cfg.max_retry_attempts

\* process_messages' retry check
give_up(msg, cfg) == msg.attempts >= cfg.max_retry_attempts

\* a proof failure that is recorded but does not end the iteration
after_proof_failure_goes_on(task) == [task EXCEPT !.pc = "ready"]

\* return Ok(()) after the proof failure is recorded: the iteration is
\* over, the task is back in the loop (and its sleep)
after_proof_failure(task) ==
    [pc |-> "loop", msg |-> None, t |-> 0, events |-> << >>]

\* start() spawning without looking at the flag
start_unguarded(isRunning) == [result |-> "ok", running |-> TRUE, spawn |-> TRUE]

\* start(): the result, the flag afterwards and whether the loops are spawned
start(isRunning) ==
    IF isRunning
    THEN [result |-> "err", running |-> TRUE, spawn |-> FALSE]
    ELSE [result |-> "ok", running |-> TRUE, spawn |-> TRUE]

---------------------------------------------------------------------------
(* service.rs: start, stop and the two spawned loops *)

Gens == 1 .. MaxStarts

Task(pc, msg, t, events) == [pc |-> pc, msg |-> msg, t |-> t, events |-> events]

AtLoop == Task("loop", None, 0, << >>)
Exited == Task("exited", None, 0, << >>)

ProcId(g) == <<"proc", g>>
WatchId(g) == <<"watch", g>>

Free == << >>

\* a lock guard that outlives the queue operation
release_never(holder) == holder

\* The guard of a lock is dropped when the queue operation returns.
release(holder) == Free

queueHistory == << popped, taken, last >>

\* RelayerService::start
Start ==
    /\ running \/ started < MaxStarts
    /\ LET r == start(running) IN
       /\ startResult' = r.result
       /\ running' = r.running
       /\ IF r.spawn
          THEN /\ started' = started + 1
               /\ proc' = [proc EXCEPT ![started + 1] = AtLoop]
               /\ watch' = [watch EXCEPT ![started + 1] = AtLoop]
          ELSE UNCHANGED << started, proc, watch >>
    /\ UNCHANGED << pending, messages, pendingLock, messagesLock, now, nextId,
                    config, verifyCalls, submitCalls, queueHistory, heard >>

\* RelayerService::stop
Stop ==
    /\ running' = FALSE
    /\ UNCHANGED << pending, messages, pendingLock, messagesLock, now, nextId,
                    config, started, proc, watch, startResult, verifyCalls,
                    submitCalls, queueHistory, heard >>

\* Where process_messages goes once it is done with a message (or found
\* none): into prune_old_messages, which reads the clock first, or back to
\* the loop and its sleep.
AfterMessage ==
    IF config.enable_auto_pruning
    THEN Task("prune", None, now, << >>)
    ELSE AtLoop

\* Where process_messages goes with what dequeue returned.
AfterDequeue(ret) ==
    IF ret = None THEN AfterMessage
    ELSE IF give_up(ret[1], config) THEN Task("fail_max", ret, 0, << >>)
    ELSE IF ret[1].message.proof THEN Task("verify", ret, 0, << >>)
    ELSE Task("ready", ret, 0, << >>)

\* while *running.read().await (processor): the sleep is over, or the task
\* has just been spawned, and the flag is read.
PCheck(g) ==
    /\ proc[g].pc = "loop"
    /\ proc' = [proc EXCEPT ![g] = IF running THEN Task("dequeue", None, 0, << >>)
                                   ELSE Exited]
    /\ UNCHANGED << pending, messages, pendingLock, messagesLock, now, nextId,
                    running, config, started, watch, startResult, verifyCalls,
                    submitCalls, queueHistory, heard >>

\* dequeue: self.pending.write().await
PDequeueLock(g) ==
    /\ proc[g].pc = "dequeue"
    /\ pendingLock = Free
    /\ pendingLock' = ProcId(g)
    /\ proc' = [proc EXCEPT ![g].pc = "dequeue2"]
    /\ UNCHANGED << pending, messages, messagesLock, now, nextId, running,
                    config, started, watch, startResult, verifyCalls,
                    submitCalls, queueHistory, heard >>

\* dequeue: self.messages.read().await, the pop loop and the return; then
\* process_messages up to its next await.
PDequeue(g) ==
    /\ proc[g].pc = "dequeue2"
    /\ messagesLock = Free
    /\ LET r == dequeue(pending, messages)
           next == AfterDequeue(r.ret)
       IN  /\ pending' = r.pending
           /\ popped' = popped \cup PoppedBy(pending, r)
           /\ taken' = Taken(taken, r.ret)
           /\ proc' = [proc EXCEPT ![g] = next]
           /\ verifyCalls' = IF next.pc = "verify"
                             THEN [verifyCalls EXCEPT ![r.ret[1].id] = @ + 1]
                             ELSE verifyCalls
    /\ pendingLock' = release(pendingLock)
    /\ UNCHANGED << messages, messagesLock, now, nextId, running, config,
                    started, watch, startResult, submitCalls, last, heard >>

\* A processor's update_status call (one step: messages.write().await and
\* the update), after which the task is in state next.
PUpdate(g, at, status, error, next) ==
    /\ proc[g].pc = at
    /\ messagesLock = Free
    /\ messages' = update_status(messages, proc[g].msg[1].id, status, error)
    /\ proc' = [proc EXCEPT ![g] = next]
    /\ UNCHANGED << pending, pendingLock, messagesLock, now, nextId, running,
                    config, started, watch, startResult, verifyCalls,
                    queueHistory, heard >>

\* attempts >= max_retry_attempts: Failed("Max retry attempts exceeded"),
\* return Ok(())
PFailMax(g) ==
    /\ PUpdate(g, "fail_max", Failed(MaxRetryReason), None, AtLoop)
    /\ UNCHANGED submitCalls

\* source_chain.verify_proof returns
PVerifyReturn(g) ==
    /\ proc[g].pc = "verify"
    /\ \E ok \in BOOLEAN :
          proc' = [proc EXCEPT ![g].pc = IF ok THEN "ready" ELSE "fail_proof"]
    /\ UNCHANGED << pending, messages, pendingLock, messagesLock, now, nextId,
                    running, config, started, watch, startResult, verifyCalls,
                    submitCalls, queueHistory, heard >>

\* verify_proof failed: Failed("Proof verification failed"), return Ok(())
PFailProof(g) ==
    /\ PUpdate(g, "fail_proof", Failed(ProofReason), Some("adapter error"),
               after_proof_failure(proc[g]))
    /\ UNCHANGED submitCalls

\* submit_message called without ReadyForSubmission being recorded first
PReady_unrecorded(g) ==
    /\ proc[g].pc = "ready"
    /\ proc' = [proc EXCEPT ![g].pc = "submit"]
    /\ submitCalls' = [submitCalls EXCEPT ![proc[g].msg[1].id] = @ + 1]
    /\ UNCHANGED << pending, messages, pendingLock, messagesLock, now, nextId,
                    running, config, started, watch, startResult, verifyCalls,
                    queueHistory, heard >>

\* update_status(ReadyForSubmission), then dest_chain.submit_message is called
PReady(g) ==
    /\ PUpdate(g, "ready", ReadyForSubmission, None,
               [proc[g] EXCEPT !.pc = "submit"])
    /\ submitCalls' = [submitCalls EXCEPT ![proc[g].msg[1].id] = @ + 1]

\* dest_chain.submit_message returns
PSubmitReturn(g) ==
    /\ proc[g].pc = "submit"
    /\ \E ok \in BOOLEAN :
          proc' = [proc EXCEPT ![g].pc = IF ok THEN "ok_submit" ELSE "fail_submit"]
    /\ UNCHANGED << pending, messages, pendingLock, messagesLock, now, nextId,
                    running, config, started, watch, startResult, verifyCalls,
                    submitCalls, queueHistory, heard >>

\* submit_message succeeded: update_status(Submitted)
PSubmitted(g) ==
    /\ PUpdate(g, "ok_submit", Submitted, None, AfterMessage)
    /\ UNCHANGED submitCalls

\* submit_message failed: Failed("Destination chain submission failed")
PFailSubmit(g) ==
    /\ PUpdate(g, "fail_submit", Failed(SubmitReason), Some("adapter error"),
               AfterMessage)
    /\ UNCHANGED submitCalls

\* prune_old_messages: self.messages.write().await
PPruneLock(g) ==
    /\ proc[g].pc = "prune"
    /\ messagesLock = Free
    /\ messagesLock' = ProcId(g)
    /\ proc' = [proc EXCEPT ![g].pc = "prune2"]
    /\ UNCHANGED << pending, messages, pendingLock, now, nextId, running,
                    config, started, watch, startResult, verifyCalls,
                    submitCalls, queueHistory, heard >>

\* prune_old_messages: self.pending.write().await and the retain
PPrune(g) ==
    /\ proc[g].pc = "prune2"
    /\ pendingLock = Free
    /\ LET r == prune_old_messages(pending, messages, proc[g].t,
                                   config.message_history_hours)
       IN  /\ pending' = r.pending
           /\ messages' = r.messages
    /\ messagesLock' = release(messagesLock)
    /\ proc' = [proc EXCEPT ![g] = AtLoop]
    /\ UNCHANGED << pendingLock, now, nextId, running, config, started, watch,
                    startResult, verifyCalls, submitCalls, queueHistory, heard >>

\* watch_chain's for loop: the next event that passes validation becomes a
\* QueuedMessage with a fresh id and the current time, and enqueue is
\* entered; with no such event left the iteration ends.  The events kept
\* for later are those that will pass validation (validate_message is pure).
WatchAdvance(g, evs) ==
    LET rest == SkipInvalid(evs) IN
    IF rest = << >>
    THEN /\ watch' = [watch EXCEPT ![g] = AtLoop]
         /\ nextId' = nextId
    ELSE /\ watch' = [watch EXCEPT ![g] =
                Task("enq", Some(QueuedMessage(nextId, Head(rest).message, now)),
                     0, SkipInvalid(Tail(rest)))]
         /\ nextId' = nextId + 1

\* The events the watchers in G have heard and not yet given an id.
RECURSIVE EventsInHand(_)
EventsInHand(G) ==
    IF G = {} THEN 0
    ELSE LET g == CHOOSE x \in G : TRUE
         IN  Len(watch[g].events) + EventsInHand(G \ {g})

\* How many more messages the watchers may take on: the bound less the ids
\* given out and the events already in hand.
Room(bound) == bound - (nextId - 1) - EventsInHand(Gens)

\* while *running.read().await (watcher); when the flag is set,
\* listen_for_events is called.
WCheck(g) ==
    /\ watch[g].pc = "loop"
    /\ watch' = [watch EXCEPT ![g] = IF running THEN Task("listen", None, 0, << >>)
                                     ELSE Exited]
    /\ UNCHANGED << pending, messages, pendingLock, messagesLock, now, nextId,
                    running, config, started, proc, startResult, verifyCalls,
                    submitCalls, queueHistory, heard >>

\* listen_for_events fails: the error is returned and logged
WListenFails(g) ==
    /\ watch[g].pc = "listen"
    /\ watch' = [watch EXCEPT ![g] = AtLoop]
    /\ UNCHANGED << pending, messages, pendingLock, messagesLock, now, nextId,
                    running, config, started, proc, startResult, verifyCalls,
                    submitCalls, queueHistory, heard >>

\* listen_for_events returns a batch of events
WListenReturns(g) ==
    /\ watch[g].pc = "listen"
    /\ \E evs \in Batches :
          /\ ValidCount(evs) <= Room(MaxRelayed)
          /\ WatchAdvance(g, evs)
    /\ UNCHANGED << pending, messages, pendingLock, messagesLock, now, running,
                    config, started, proc, startResult, verifyCalls,
                    submitCalls, queueHistory, heard >>

\* enqueue: self.pending.write().await
WEnqueueLock(g) ==
    /\ watch[g].pc = "enq"
    /\ pendingLock = Free
    /\ pendingLock' = WatchId(g)
    /\ watch' = [watch EXCEPT ![g].pc = "enq2"]
    /\ UNCHANGED << pending, messages, messagesLock, now, nextId, running,
                    config, started, proc, startResult, verifyCalls,
                    submitCalls, queueHistory, heard >>

\* enqueue: self.messages.write().await, push_back and insert; then the
\* rest of the batch
WEnqueue(g) ==
    /\ watch[g].pc = "enq2"
    /\ messagesLock = Free
    /\ LET r == enqueue(pending, messages, watch[g].msg[1])
       IN  /\ pending' = r.pending
           /\ messages' = r.messages
    /\ pendingLock' = release(pendingLock)
    /\ WatchAdvance(g, watch[g].events)
    /\ UNCHANGED << messagesLock, now, running, config, started, proc,
                    startResult, verifyCalls, submitCalls, queueHistory, heard >>

ProcStep(g) ==
    \/ PCheck(g)
    \/ PDequeueLock(g)
    \/ PDequeue(g)
    \/ PFailMax(g)
    \/ PVerifyReturn(g)
    \/ PFailProof(g)
    \/ PReady(g)
    \/ PSubmitReturn(g)
    \/ PSubmitted(g)
    \/ PFailSubmit(g)
    \/ PPruneLock(g)
    \/ PPrune(g)

WatchStep(g) ==
    \/ WCheck(g)
    \/ WListenFails(g)
    \/ WListenReturns(g)
    \/ WEnqueueLock(g)
    \/ WEnqueue(g)

\* The wall clock moves on while the service runs.
ServiceTick ==
    /\ \E t \in TimePoints : t > now /\ now' = t
    /\ UNCHANGED << pending, messages, pendingLock, messagesLock, nextId,
                    running, config, started, proc, watch, startResult,
                    verifyCalls, submitCalls, queueHistory, heard >>

Configs ==
    {RelayerConfig(r, FALSE, 0) : r \in 0 .. MaxRetry}
      \cup {RelayerConfig(r, TRUE, h) : r \in 0 .. MaxRetry, h \in 0 .. MaxHours}

\* RelayerService::new
Init == \E c \in Configs : ConfigInit(c)

Next ==
    \/ Start
    \/ Stop
    \/ \E g \in Gens : ProcStep(g)
    \/ \E g \in Gens : WatchStep(g)
    \/ ServiceTick

Spec == Init /\ [][Next]_vars

\* listen_for_events returns a batch of events, which is kept as history;
\* the ids allocated are bounded as in SpecQueue.
WListenHeard(g) ==
    /\ watch[g].pc = "listen"
    /\ \E evs \in Batches :
          /\ ValidCount(evs) <= Room(MaxMsgs)
          /\ WatchAdvance(g, evs)
          /\ heard' = [events |-> evs, first |-> nextId]
    /\ UNCHANGED << pending, messages, pendingLock, messagesLock, now, running,
                    config, started, proc, startResult, verifyCalls,
                    submitCalls, queueHistory >>

\* The service with only the watcher of the first start() scheduled: the
\* iterations of one watch_chain loop over whole batches.
NextWatch ==
    \/ Start
    \/ Stop
    \/ WCheck(1)
    \/ WListenFails(1)
    \/ WListenHeard(1)
    \/ WEnqueueLock(1)
    \/ WEnqueue(1)

SpecWatch == InitQueue /\ [][NextWatch]_vars

\* The runtime keeps polling every spawned task that can make progress, the
\* RwLocks hand themselves out in request order (no waiter is passed over for
\* ever), every adapter call returns and every sleep ends: each loop that is
\* able to take a step again and again does take one.  start, stop and the
\* clock are the environment's and get no fairness.
Fairness ==
    \A g \in Gens : SF_vars(ProcStep(g)) /\ SF_vars(WatchStep(g))

FairSpec == Init /\ [][Next]_vars /\ Fairness

---------------------------------------------------------------------------
(* Properties of the MessageQueue (checked under SpecQueue, SpecQueueClock) *)

Range(q) == {q[i] : i \in 1 .. Len(q)}

IsPendingIn(m, id) == id \in DOMAIN m /\ m[id].status = Pending

\* Positions of the ordering sequence whose id has a Pending record.
PendingPositions == {i \in 1 .. Len(pending) : IsPendingIn(messages, pending[i])}

First(S) == CHOOSE i \in S : \A j \in S : i <= j

\* C1: each dequeue returns (a copy of) the record of the earliest-enqueued id
\* still in the ordering sequence whose status is Pending, taking it and every
\* id ahead of it off the sequence; it returns None only when no id left in
\* the sequence is Pending, and then it empties the sequence.  Ids are handed
\* out in enqueue order, so "earliest-enqueued" is the smallest such id.
C1_DequeueFifo ==
    [][ last'.op = "dequeue" =>
          IF PendingPositions = {}
          THEN last'.ret = None /\ pending' = << >>
          ELSE LET i == First(PendingPositions) IN
               /\ last'.ret = Some(messages[pending[i]])
               /\ pending' = SubSeq(pending, i + 1, Len(pending))
               /\ \A id \in Range(pending) :
                     IsPendingIn(messages, id) => pending[i] <= id ]_vars

\* C1 witness: a dequeue skipped a non-Pending id and returned the one behind it.
C1_Witness ==
    /\ last.op = "dequeue"
    /\ last.ret # None
    /\ last.n >= 2

AgeMillis(t, msg) == t - msg.queued_at

HoursInMillis(h) == h * SecsPerHour * MillisPerSec

Terminal(status) == status.tag \in {"Submitted", "Finalized", "Failed"}

Protected(status) == status \in {Pending, Proving}

C4_PendingInMessages == Range(pending) \subseteq DOMAIN messages

\* C4 witness: a prune removed an id that was still in the ordering sequence
\* (it was enqueued, no dequeue popped it, and the prune took it off).
C4_Witness ==
    /\ last.op = "prune"
    /\ last.n >= 1
    /\ \E id \in 1 .. (nextId - 1) :
          id \notin popped /\ id \notin DOMAIN messages /\ id \notin Range(pending)

\* C5 as stated: the two structures hold the same ids between operations.
C5_Original == Range(pending) = DOMAIN messages

\* C5 amended: every id in the ordering sequence is a key of the lookup map,
\* and a key of the lookup map that is not in the ordering sequence is an id
\* that a dequeue popped (dequeue leaves the record in the map).
C5_ConsistentUpToDequeue ==
    /\ Range(pending) \subseteq DOMAIN messages
    /\ (DOMAIN messages) \ Range(pending) \subseteq popped

\* C5 witness: a dequeue has left a record in the map whose id is off the
\* ordering sequence, next to one that is in both.
C5_Witness ==
    /\ \E id \in DOMAIN messages : id \notin Range(pending) /\ id \in popped
    /\ \E id \in DOMAIN messages : id \in Range(pending)

\* C6: update_status(id, s, e) on a known id adds exactly 1 to its attempts
\* when s is Failed(_) and leaves attempts alone otherwise; on an unknown id
\* it changes nothing; no other record and no entry of the ordering sequence
\* changes.
C6_UpdateStatusFrame ==
    [][ last'.op = "update_status" =>
          \A id \in Ids, u \in UpdateInputs :
             \* the step is update_status(id, u[1], u[2])
             ( /\ id \in DOMAIN messages' =>
                     /\ messages'[id].status = u[1]
                     /\ messages'[id].last_error = u[2]
               /\ QUpdateStatus(id, u[1], u[2]) ) =>
                /\ pending' = pending
                /\ DOMAIN messages' = DOMAIN messages
                /\ \A other \in DOMAIN messages :
                      other # id => messages'[other] = messages[other]
                /\ id \in DOMAIN messages =>
                      /\ messages'[id].attempts =
                            messages[id].attempts
                              + (IF u[1].tag = "Failed" THEN 1 ELSE 0)
                      /\ messages'[id].status = u[1]
                      /\ messages'[id].last_error = u[2]
                      /\ messages'[id].id = id
                      /\ messages'[id].queued_at = messages[id].queued_at
                      /\ messages'[id].message = messages[id].message ]_vars

\* C6 witness: an update_status has just run, one record has been counted a
\* failed attempt and another, not Failed, has none.
C6_Witness ==
    /\ last.op = "update_status"
    /\ \E id \in DOMAIN messages :
          messages[id].status.tag = "Failed" /\ messages[id].attempts = 1
    /\ \E id \in DOMAIN messages :
          messages[id].status = Submitted /\ messages[id].attempts = 0

---------------------------------------------------------------------------
(* Properties of the RelayerService (checked under Spec) *)

Alive(task) == task.pc \notin {"idle", "exited"}

\* The processors working on message id (holding the copy dequeue returned).
Holders(id) == {g \in Gens : proc[g].msg # None /\ proc[g].msg[1].id = id}

\* C2: a message dequeued with attempts >= max_retry_attempts gets no
\* verify_proof and no submit_message call, and the processor that dequeued it
\* does nothing with it but set it to Failed("Max retry attempts exceeded"):
\* while the processor holds it the record is still Pending and the processor
\* is about to make that update, and once it has let go the record (until it
\* is pruned) is Failed with that reason, no error text and one more attempt.
C2_MaxRetryFailsWithoutAdapter ==
    \A id \in Ids :
       (taken[id] >= 0 /\ taken[id] >= config.max_retry_attempts) =>
          /\ verifyCalls[id] = 0
          /\ submitCalls[id] = 0
          /\ \A g \in Holders(id) :
                /\ proc[g].pc = "fail_max"
                /\ IsPendingIn(messages, id)
          /\ (Holders(id) = {} /\ id \in DOMAIN messages) =>
                /\ messages[id].status = Failed(MaxRetryReason)
                /\ messages[id].last_error = None
                /\ messages[id].attempts = taken[id] + 1

\* C2 witness: a message that was dequeued with attempts at the cap has been
\* set to Failed("Max retry attempts exceeded") and the processor is back at
\* the top of its loop.
C2_Witness ==
    \E id \in Ids :
       /\ taken[id] >= 0
       /\ taken[id] >= config.max_retry_attempts
       /\ Holders(id) = {}
       /\ id \in DOMAIN messages
       /\ messages[id].status = Failed(MaxRetryReason)

\* C7: in every step of the service, a message that stays in the queue keeps
\* or raises its attempts, and attempts changes (by 1) only in a step that
\* leaves the status Failed.
C7_AttemptsMonotone ==
    [][ \A id \in (DOMAIN messages) \cap (DOMAIN messages') :
          /\ messages'[id].attempts >= messages[id].attempts
          /\ messages'[id].attempts # messages[id].attempts =>
                /\ messages'[id].status.tag = "Failed"
                /\ messages'[id].attempts = messages[id].attempts + 1 ]_vars

\* C7 witness: a message of the running service has a counted failure.
C7_Witness ==
    \E id \in DOMAIN messages :
       /\ messages[id].attempts = 1
       /\ messages[id].status = Failed(SubmitReason)
       /\ started >= 1

\* C8: start() with the flag set returns the Configuration error, leaves the
\* flag set and spawns nothing; with the flag clear it sets the flag, spawns
\* one processor loop and one watcher loop (neither has run a step when
\* start returns) and returns Ok.
C8_StartGuard ==
    [][ Start =>
          IF running
          THEN /\ startResult' = "err"
               /\ running'
               /\ UNCHANGED << proc, watch, started >>
          ELSE /\ startResult' = "ok"
               /\ running'
               /\ \E g \in Gens :
                     /\ proc[g].pc = "idle" /\ proc'[g] = AtLoop
                     /\ watch[g].pc = "idle" /\ watch'[g] = AtLoop
                     /\ \A o \in Gens \ {g} :
                           proc'[o] = proc[o] /\ watch'[o] = watch[o] ]_vars

\* C8 witness: a second start() was refused while the loops of the first are
\* the only ones.
C8_Witness ==
    /\ startResult = "err"
    /\ running
    /\ started = 1
    /\ Alive(proc[1]) /\ Alive(watch[1])
    /\ \A g \in Gens \ {1} : proc[g].pc = "idle" /\ watch[g].pc = "idle"

\* C9 as stated: at most one processor loop and at most one watcher loop are
\* alive at any time.
C9_Original ==
    /\ Cardinality({g \in Gens : Alive(proc[g])}) <= 1
    /\ Cardinality({g \in Gens : Alive(watch[g])}) <= 1

NoLoopAlive == \A g \in Gens : ~Alive(proc[g]) /\ ~Alive(watch[g])

\* C10 as stated: once the running flag stays false for good (stop() was
\* called and start() is not called again), and with every adapter call
\* returning, all background loops eventually exit (and none is alive from
\* then on).
C10_Original == <>[](~running) => <>[]NoLoopAlive

\* The step in which processor g leaves position at: it has made the
\* update_status call of that position.
Leaves(g, at) == proc[g].pc = at /\ proc'[g].pc # at

\* C11 as stated, read at the moment the processor has recorded the outcome
\* (before the pruning pass of the same iteration) and for a message dequeued
\* below the retry cap: when submit_message succeeded for a proofless message,
\* the update leaves its record Submitted, with no last_error and the attempts
\* it was dequeued with.
C11_Original ==
    [][ \A g \in Gens :
          (Leaves(g, "ok_submit") /\ ~proc[g].msg[1].message.proof) =>
             LET id == proc[g].msg[1].id IN
             /\ id \in DOMAIN messages'
             /\ messages'[id].status = Submitted
             /\ messages'[id].last_error = None
             /\ messages'[id].attempts = proc[g].msg[1].attempts ]_vars

\* C12: when verify_proof failed for a dequeued message (which carries a
\* proof and was below the retry cap), the record is still Pending (it was
\* never ReadyForSubmission), the update makes it Failed("Proof verification
\* failed") with the adapter error and one more attempt, submit_message has
\* not been called for it and the iteration ends there; and as long as the
\* record is there with that status, submit_message has never been called for
\* it and its attempts is 1.
C12_ProofFailure ==
    /\ [][ \A g \in Gens : Leaves(g, "fail_proof") =>
              LET msg == proc[g].msg[1]
                  id == msg.id
              IN  /\ msg.message.proof
                  /\ msg.attempts < config.max_retry_attempts
                  /\ id \in DOMAIN messages
                  /\ messages[id] = msg
                  /\ messages[id].status = Pending
                  /\ id \in DOMAIN messages'
                  /\ messages'[id] =
                        [msg EXCEPT !.status = Failed(ProofReason),
                                    !.last_error = Some("adapter error"),
                                    !.attempts = msg.attempts + 1]
                  /\ submitCalls'[id] = 0
                  /\ proc'[g] = AtLoop ]_vars
    /\ [](\A id \in DOMAIN messages :
             messages[id].status = Failed(ProofReason) =>
                /\ submitCalls[id] = 0
                /\ verifyCalls[id] = 1
                /\ messages[id].attempts = 1
                /\ messages[id].last_error = Some("adapter error"))

\* C12 witness: a message with a proof has failed verification, its failure
\* is recorded and its processor is back in the loop.
C12_Witness ==
    \E id \in DOMAIN messages :
       /\ messages[id].status = Failed(ProofReason)
       /\ messages[id].message.proof
       /\ messages[id].attempts = 1
       /\ Holders(id) = {}

ProcessorTransitions ==
    { <<Pending, Failed(MaxRetryReason)>>, <<Pending, Failed(ProofReason)>>,
      <<Pending, ReadyForSubmission>>, <<ReadyForSubmission, Submitted>>,
      <<ReadyForSubmission, Failed(SubmitReason)>> }

HeldBy(task) ==
    (IF pendingLock = task THEN {"pending"} ELSE {})
       \cup (IF messagesLock = task THEN {"messages"} ELSE {})

\* C16: a loop that is waiting in listen_for_events, verify_proof or
\* submit_message, or in its sleep, holds neither queue lock; a task holds a
\* lock only while it is inside dequeue, enqueue or prune_old_messages.  (The
\* guard on the running flag lives only within start(), stop() and the
\* evaluation of the loops' while condition, none of which contains an await
\* after the lock is taken, so it is never held between two steps.)
C16_NoLockAcrossAdapterCall ==
    \A g \in Gens :
       /\ proc[g].pc \in {"verify", "submit", "loop"} => HeldBy(ProcId(g)) = {}
       /\ watch[g].pc \in {"listen", "loop"} => HeldBy(WatchId(g)) = {}
       /\ HeldBy(ProcId(g)) # {} => proc[g].pc \in {"dequeue2", "prune2"}
       /\ HeldBy(WatchId(g)) # {} => watch[g].pc = "enq2"

\* C16 witness: a processor is waiting in submit_message and a watcher in
\* listen_for_events, right after queue operations that took locks, while a
\* third task is inside prune_old_messages with the messages lock.
C16_Witness ==
    /\ \E g \in Gens : proc[g].pc = "submit"
    /\ \E g \in Gens : watch[g].pc = "listen"
    /\ \E g \in Gens : proc[g].pc = "prune2" /\ messagesLock = ProcId(g)

\* The task has started enqueue, dequeue or prune_old_messages and has not
\* completed it: it is about to ask for the operation's first lock, or holds
\* it and asks for the second.
InQueueOp(task) ==
    task.pc \in {"enq", "enq2", "dequeue", "dequeue2", "prune", "prune2"}

\* C17 as stated (checked under FairSpec): every enqueue, dequeue or
\* prune_old_messages that a loop has started eventually completes.
C17_Original ==
    \A g \in Gens :
       /\ InQueueOp(proc[g]) ~> ~InQueueOp(proc[g])
       /\ InQueueOp(watch[g]) ~> ~InQueueOp(watch[g])

\* C18: submit_message is called at most once for each message id, however
\* the loops interleave and however many processor loops start() and stop()
\* have left alive.
C18_SubmitAtMostOnce == \A id \in Ids : submitCalls[id] <= 1

\* C18 witness: after a restart two processor loops are alive; one has
\* submitted the message and the other is inside a dequeue that comes after.
C18_Witness ==
    /\ started = 2
    /\ \E id \in Ids : submitCalls[id] = 1
    /\ \E g, o \in Gens :
          /\ g # o
          /\ proc[g].pc \in {"submit", "ok_submit", "fail_submit"}
          /\ proc[o].pc = "dequeue2"

\* The record of id shows a final outcome.
Settled(id) ==
    id \in DOMAIN messages /\ messages[id].status.tag \in {"Submitted", "Failed"}

\* C19 as stated (checked under FairSpec, where every loop keeps being
\* scheduled and every adapter call returns): if the service stays running
\* from some point on, every message that is Pending in the queue eventually
\* has status Submitted or Failed.
C19_Original ==
    <>[]running =>
       \A id \in Ids : IsPendingIn(messages, id) ~> Settled(id)

\* The positions at which a processor makes an update_status call.
UpdatePositions == {"fail_max", "fail_proof", "ready", "ok_submit", "fail_submit"}

\* C20 as stated: every update_status call that process_messages makes finds
\* the record of the message it dequeued in the lookup map (no prune removes
\* the record of a message a processor is still working on), so the outcome
\* of each submit_message call is recorded as Submitted or Failed.
C20_Original ==
    [][ \A g \in Gens : \A at \in UpdatePositions :
          Leaves(g, at) =>
             LET id == proc[g].msg[1].id IN
             /\ id \in DOMAIN messages
             /\ id \in DOMAIN messages'
             /\ at = "ok_submit" => messages'[id].status = Submitted
             /\ at = "fail_submit" => messages'[id].status = Failed(SubmitReason) ]_vars

---------------------------------------------------------------------------
(* Properties of the watcher loop (checked under SpecWatch) *)

\* The validation rule as the specification states it.
Valid(ev) ==
    /\ ev.message.from_chain # "Unknown"
    /\ ev.message.to_chain # "Unknown"
    /\ ev.message.payload # << >>

ValidEvents(evs) == SelectSeq(evs, Valid)

\* How many events of the batch last heard have been enqueued.
EnqueuedOfBatch == Len(pending) - (heard.first - 1)

\* C13: a watcher iteration whose listen_for_events fails enqueues nothing;
\* otherwise it enqueues exactly the events of the batch that pass validation,
\* in batch order, each under a fresh id (the next one), with status Pending,
\* attempts 0 and no last_error: while the iteration runs the records
\* enqueued so far are the first valid events of the batch and the one being
\* enqueued is the next valid one, and when it is over all valid events of
\* the batch, and nothing else, have been enqueued.
C13_WatcherEnqueuesValid ==
    /\ [][ (watch[1].pc = "listen" /\ watch'[1].pc # "listen" /\ heard' = heard) =>
             /\ UNCHANGED << pending, messages, nextId >>
             /\ watch'[1] = AtLoop ]_vars
    /\ [] LET V == ValidEvents(heard.events)
              done == EnqueuedOfBatch
          IN  /\ pending = [i \in 1 .. Len(pending) |-> i]
              /\ DOMAIN messages = 1 .. Len(pending)
              /\ \A id \in DOMAIN messages :
                    /\ messages[id].id = id
                    /\ messages[id].status = Pending
                    /\ messages[id].attempts = 0
                    /\ messages[id].last_error = None
              /\ done \in 0 .. Len(V)
              /\ \A k \in 1 .. done :
                    messages[heard.first + k - 1].message = V[k].message
              /\ watch[1].pc \in {"idle", "loop", "listen", "exited"} =>
                    /\ done = Len(V)
                    /\ nextId = Len(pending) + 1
              /\ watch[1].pc \in {"enq", "enq2"} =>
                    /\ done < Len(V)
                    /\ nextId = Len(pending) + 2
                    /\ watch[1].msg =
                          Some(QueuedMessage(Len(pending) + 1, V[done + 1].message, now))

\* C13 witness: an iteration is over whose batch held an invalid event ahead
\* of a valid one; the valid one was enqueued behind an earlier message.
C13_Witness ==
    /\ watch[1].pc = "loop"
    /\ Len(heard.events) = 2
    /\ ~Valid(heard.events[1])
    /\ Valid(heard.events[2])
    /\ Len(pending) = 2
    /\ heard.first = 2
    /\ messages[2].message = heard.events[2].message

=============================================================================
